---- MODULE Spec2Model ----
(***************************************************************************)
(* TemporalObject (src/temporal/main.py): a rolling buffer of state        *)
(* snapshots (a deque with maxlen) kept next to an identifier index (a     *)
(* LimitedDict with the same maxlen).                                      *)
(*                                                                         *)
(* Python values are modelled as follows.  An optional value is a sequence *)
(* of length 0 or 1: None is <<>> and a present value x is <<x>>.  A state *)
(* snapshot (a dict) is a function from a subset of Fields to Values.  The *)
(* deque is a sequence, oldest first.  The LimitedDict is the sequence of  *)
(* its <<key, value>> items in insertion order.  A call's outcome is        *)
(* Ok(value) or Raise(exception); a result that may be None (an identifier *)
(* lookup) is returned as an optional value.                               *)
(***************************************************************************)
EXTENDS Integers, Sequences, FiniteSets, TLC

VARIABLES
    temporal_depth,   \* the constructor argument: None or <<n>>
    overwrite_moves,  \* LimitedDict: does re-setting a key move it to the end
    _buffer,          \* self._buffer, oldest first
    _id_index,        \* self._id_index, items in insertion order
    updates,          \* history: <<id, state>> of every update call, in order
    used,             \* history: the identifiers stored so far
    inserted,         \* history: the keys of _id_index, in the order they came in
    direct,           \* history: number of direct __setitem__/__delitem__ calls
    streak,           \* history: the number of update calls with an identifier
                      \* not stored before, since the last call of another kind
    ret               \* the outcome of the last call

vars == <<temporal_depth, overwrite_moves, _buffer, _id_index, updates, used, inserted, direct, streak, ret>>

\* ------------------------------------------------------------------ bounds
\* update calls in SpecUpdate
MaxUpdates == 4
\* the largest integer temporal_depth
MaxDepth == 2
\* direct __setitem__/__delitem__ calls
MaxDirect == 1
\* integer indices and recent(n) arguments range over -MaxIndex..MaxIndex
MaxIndex == 3
\* update calls where other calls are interleaved (Spec, SpecRead)
MaxFewUpdates == 3
\* update calls around the direct calls whose frame is checked (SpecDirect)
MaxFrameUpdates == 2

\* ------------------------------------------------------------------ values
None == <<>>
Some(x) == <<x>>

Ids == {"a", "b", "c"}
Fields == {"k"}
Values == {1}
Snapshots == UNION {[D -> Values] : D \in SUBSET Fields}
Depths == {None} \cup {Some(n) : n \in 0..MaxDepth}

\* A call's outcome: a returned value, or a raised exception.
Ok(v) == [raised |-> "no", value |-> v]
Raise(e) == [raised |-> e]

\* ------------------------------------------------------------------ sequences
Last(s) == s[Len(s)]
\* The last n elements of s (all of s when n >= Len(s)).
LastN(s, n) == IF n >= Len(s) THEN s ELSE SubSeq(s, Len(s) - n + 1, Len(s))
Min(a, b) == IF a <= b THEN a ELSE b
Abs(i) == IF i < 0 THEN -i ELSE i

\* ------------------------------------------------------------------ deque
\* collections.deque(maxlen).append(x): append on the right; when that makes
\* the deque longer than maxlen, discard from the left.
\* (fault variant: a full deque keeps its items and drops the new one)
DequeAppendKeepOldest(buf, maxlen, x) == IF maxlen # None /\ Len(buf) >= maxlen[1] THEN buf ELSE Append(buf, x)
\* (fault variant: a full deque is emptied before the new item goes in)
DequeAppendRestart(buf, maxlen, x) == IF maxlen # None /\ Len(buf) >= maxlen[1] THEN <<x>> ELSE Append(buf, x)
DequeAppend(buf, maxlen, x) ==
    LET b == Append(buf, x)
    IN  IF maxlen # None /\ Len(b) > maxlen[1] THEN Tail(b) ELSE b

\* ------------------------------------------------------------------ LimitedDict
Keys(d) == {d[i][1] : i \in 1..Len(d)}
HasKey(d, k) == \E i \in 1..Len(d) : d[i][1] = k
PosOf(d, k) == CHOOSE i \in 1..Len(d) : d[i][1] = k
Remove(d, k) == SelectSeq(d, LAMBDA item : item[1] # k)
\* dict.get(key, default), with default None
DictGet(d, k) == IF HasKey(d, k) THEN Some(d[PosOf(d, k)][2]) ELSE None
\* A falsy maxlen (None or 0) means no bound.
Bounded(maxlen) == maxlen # None /\ maxlen[1] # 0
\* d[k] = v: an existing key is overwritten and nothing is evicted; a new key
\* first evicts the oldest items while the dict is at its bound.
LimitedDictSet(d, maxlen, k, v, moves) ==
    IF HasKey(d, k)
    THEN IF moves
         THEN Append(Remove(d, k), <<k, v>>)
         ELSE [d EXCEPT ![PosOf(d, k)] = <<k, v>>]
    ELSE IF Bounded(maxlen) /\ Len(d) >= maxlen[1]
         THEN Append(LastN(d, maxlen[1] - 1), <<k, v>>)
         ELSE Append(d, <<k, v>>)
\* del d[k]
LimitedDictDel(d, k) == Remove(d, k)

\* History of the keys of dict d after a call: the keys that are still in d
\* keep their place, a key that came in goes to the end.
TrackInserted(d) ==
    LET kept == SelectSeq(inserted, LAMBDA k : HasKey(d, k))
        came == SelectSeq([i \in 1..Len(d) |-> d[i][1]], LAMBDA k : \A j \in 1..Len(inserted) : inserted[j] # k)
    IN  kept \o came

\* ------------------------------------------------------------------ TemporalObject
\* __init__: both containers get temporal_depth as their maxlen.
\* (fault variants: deque(maxlen=temporal_depth or 1); LimitedDict();
\* LimitedDict(temporal_depth - 1))
buffer_maxlen_or_one == IF temporal_depth = None \/ temporal_depth = Some(0) THEN Some(1) ELSE temporal_depth
\* (fault variant: deque(maxlen=temporal_depth + 1))
buffer_maxlen_plus_one == IF temporal_depth = None THEN None ELSE Some(temporal_depth[1] + 1)
buffer_maxlen == temporal_depth
id_index_unbounded == None
id_index_maxlen_minus_one == IF temporal_depth = None \/ temporal_depth = Some(0) THEN temporal_depth ELSE Some(temporal_depth[1] - 1)
id_index_maxlen == temporal_depth

__init__ ==
    /\ temporal_depth \in Depths
    /\ overwrite_moves \in BOOLEAN
    /\ _buffer = <<>>
    /\ _id_index = <<>>
    /\ updates = <<>>
    /\ used = {}
    /\ inserted = <<>>
    /\ direct = 0
    /\ streak = 0
    /\ ret = [op |-> "__init__", out |-> Ok(None)]

\* _add(id, state)
\* (fault variant: the identifier index is not written)
_add_buffer_only(id, state) == _id_index' = _id_index /\ _buffer' = DequeAppend(_buffer, buffer_maxlen, state)
\* (fault variant: an identifier already in the index keeps its old state)
_add_index_if_absent(id, state) ==
    /\ _id_index' = IF HasKey(_id_index, id)
                    THEN _id_index
                    ELSE LimitedDictSet(_id_index, id_index_maxlen, id, state, overwrite_moves)
    /\ _buffer' = DequeAppend(_buffer, buffer_maxlen, state)
_add(id, state) ==
    /\ _id_index' = LimitedDictSet(_id_index, id_index_maxlen, id, state, overwrite_moves)
    /\ _buffer' = DequeAppend(_buffer, buffer_maxlen, state)

\* update(object_state, temporal_id): temporal_id is None or Some(id); a
\* missing one is generated (uuid4: an identifier not seen before).
update(object_state, temporal_id) ==
    /\ Len(updates) < MaxUpdates
    /\ \E id \in Ids :
        /\ IF temporal_id = None THEN id \notin used ELSE id = temporal_id[1]
        /\ _add(id, object_state)
        /\ updates' = Append(updates, <<id, object_state>>)
        /\ streak' = IF id \notin used THEN streak + 1 ELSE 0
        /\ used' = used \cup {id}
        /\ inserted' = TrackInserted(_id_index')
        /\ ret' = [op |-> "update", arg |-> temporal_id, out |-> Ok(id)]
    /\ UNCHANGED <<temporal_depth, overwrite_moves, direct>>

\* __setitem__(key, value): the identifier index only
\* (fault variant: the write goes to a plain dict, without the bound)
setitem_unbounded(key, value) ==
    /\ direct < MaxDirect
    /\ _id_index' = LimitedDictSet(_id_index, None, key, value, overwrite_moves)
    /\ used' = used \cup {key}
    /\ inserted' = TrackInserted(_id_index')
    /\ direct' = direct + 1
    /\ streak' = 0
    /\ ret' = [op |-> "__setitem__", arg |-> <<key, value>>, out |-> Ok(None)]
    /\ UNCHANGED <<temporal_depth, overwrite_moves, _buffer, updates>>
\* (fault variant: a full index evicts its oldest key on every write, also
\* when the key written is already there)
setitem_evicts_always(key, value) ==
    /\ direct < MaxDirect
    /\ _id_index' = LimitedDictSet(IF Bounded(id_index_maxlen) /\ Len(_id_index) >= id_index_maxlen[1]
                                   THEN Tail(_id_index) ELSE _id_index,
                                   id_index_maxlen, key, value, overwrite_moves)
    /\ used' = used \cup {key}
    /\ inserted' = TrackInserted(_id_index')
    /\ direct' = direct + 1
    /\ streak' = 0
    /\ ret' = [op |-> "__setitem__", arg |-> <<key, value>>, out |-> Ok(None)]
    /\ UNCHANGED <<temporal_depth, overwrite_moves, _buffer, updates>>
__setitem__(key, value) ==
    /\ direct < MaxDirect
    /\ _id_index' = LimitedDictSet(_id_index, id_index_maxlen, key, value, overwrite_moves)
    /\ used' = used \cup {key}
    /\ inserted' = TrackInserted(_id_index')
    /\ direct' = direct + 1
    /\ streak' = 0
    /\ ret' = [op |-> "__setitem__", arg |-> <<key, value>>, out |-> Ok(None)]
    /\ UNCHANGED <<temporal_depth, overwrite_moves, _buffer, updates>>

\* __delitem__(key): the identifier index only.  Deleting an absent key
\* changes nothing; whether it raises is the dict's choice.
\* (fault variant: the deleted identifier's state is taken out of the buffer too)
delitem_with_buffer(key) ==
    /\ direct < MaxDirect
    /\ _id_index' = LimitedDictDel(_id_index, key)
    /\ _buffer' = SelectSeq(_buffer, LAMBDA s : Some(s) # DictGet(_id_index, key))
    /\ inserted' = TrackInserted(_id_index')
    /\ direct' = direct + 1
    /\ streak' = 0
    /\ \E out \in {Ok(None), Raise("KeyError")} :
        /\ HasKey(_id_index, key) => out = Ok(None)
        /\ ret' = [op |-> "__delitem__", arg |-> key, out |-> out]
    /\ UNCHANGED <<temporal_depth, overwrite_moves, updates, used>>
__delitem__(key) ==
    /\ direct < MaxDirect
    /\ _id_index' = LimitedDictDel(_id_index, key)
    /\ inserted' = TrackInserted(_id_index')
    /\ direct' = direct + 1
    /\ streak' = 0
    /\ \E out \in {Ok(None), Raise("KeyError")} :
        /\ HasKey(_id_index, key) => out = Ok(None)
        /\ ret' = [op |-> "__delitem__", arg |-> key, out |-> out]
    /\ UNCHANGED <<temporal_depth, overwrite_moves, _buffer, updates, used>>

\* __len__()
__len__ == Len(_buffer)

\* __contains__(key)
__contains__(key) == HasKey(_id_index, key)

\* _get_by_temporal_id(temporal_id): the state, or None
_get_by_temporal_id(temporal_id) == DictGet(_id_index, temporal_id)

\* deque[j] for a Python index j (negative counts from the right)
DequeIndex(buf, j) ==
    LET p == IF j < 0 THEN j + Len(buf) ELSE j
    IN  IF p < 0 \/ p >= Len(buf) THEN Raise("IndexError") ELSE Ok(buf[p + 1])

\* range(start, stop, step) as a sequence, step # 0
Range(start, stop, step) ==
    LET n == IF step > 0
             THEN (IF start < stop THEN ((stop - start - 1) \div step) + 1 ELSE 0)
             ELSE (IF start > stop THEN ((start - stop - 1) \div (-step)) + 1 ELSE 0)
    IN  [k \in 1..n |-> start + (k - 1) * step]

\* slice(start, stop, step).indices(length): each of start, stop, step is
\* None or Some(int); step is not Some(0).
\* (fault variant: the bounds are taken as given, without clamping to the length)
SliceIndicesUnclamped(sl, length) ==
    LET step  == IF sl.step = None THEN 1 ELSE sl.step[1]
        start == IF sl.start = None
                 THEN (IF step < 0 THEN length - 1 ELSE 0)
                 ELSE sl.start[1]
        stop  == IF sl.stop = None
                 THEN (IF step < 0 THEN -1 ELSE length)
                 ELSE sl.stop[1]
    IN  <<start, stop, step>>
SliceIndices(sl, length) ==
    LET step  == IF sl.step = None THEN 1 ELSE sl.step[1]
        lower == IF step < 0 THEN -1 ELSE 0
        upper == IF step < 0 THEN length - 1 ELSE length
        Clamp(v) == IF v < 0
                    THEN (IF v + length < lower THEN lower ELSE v + length)
                    ELSE (IF v > upper THEN upper ELSE v)
        start == IF sl.start = None
                 THEN (IF step < 0 THEN upper ELSE lower)
                 ELSE Clamp(sl.start[1])
        stop  == IF sl.stop = None
                 THEN (IF step < 0 THEN lower ELSE upper)
                 ELSE Clamp(sl.stop[1])
    IN  <<start, stop, step>>

IntIndex(i) == [type |-> "int", v |-> i]
StrIndex(k) == [type |-> "str", v |-> k]
Slice(start, stop, step) == [type |-> "slice", start |-> start, stop |-> stop, step |-> step]
OtherIndex == [type |-> "other"]

\* __getitem__(index)
\* (fault variants: a negative index counts from the oldest end, as in a
\* Python list; the index counts from the oldest end)
getitem_int_python_negative(i) == DequeIndex(_buffer, IF i < 0 THEN -i - 1 ELSE -1 - i)
getitem_int_from_oldest(i) ==
    LET index == Abs(i)
    IN  IF index >= Len(_buffer) THEN Raise("IndexError") ELSE DequeIndex(_buffer, index)
getitem_int(i) ==
    LET index == IF i < 0 THEN Abs(i) ELSE i
    IN  IF index < 0 \/ index >= Len(_buffer)
        THEN Raise("IndexError")
        ELSE DequeIndex(_buffer, -1 - index)

\* slice.indices raises ValueError for a step of 0; an index the deque does
\* not have raises IndexError out of the list comprehension.
ListOfSlice(buf, sl) ==
    IF sl.step = Some(0)
    THEN Raise("ValueError")
    ELSE LET ind   == SliceIndices(sl, Len(buf))
             r     == Range(ind[1], ind[2], ind[3])
             items == [k \in 1..Len(r) |-> DequeIndex(buf, r[k])]
         IN  IF \E k \in 1..Len(r) : items[k].raised # "no"
             THEN Raise("IndexError")
             ELSE Ok([k \in 1..Len(r) |-> items[k].value])
getitem_slice(sl) == ListOfSlice(_buffer, sl)

__getitem__(index) ==
    CASE index.type = "int"   -> getitem_int(index.v)
      [] index.type = "slice" -> getitem_slice(index)
      [] index.type = "str"   -> Ok(_get_by_temporal_id(index.v))
      [] OTHER                -> Raise("TypeError")

\* recent(n)
recent(n) == __getitem__(Slice(Some(-n), None, None))

\* current
\* (fault variant: None instead of IndexError on an empty buffer)
current_or_none == IF Len(_buffer) = 0 THEN Ok(None) ELSE Ok(Last(_buffer))
current == DequeIndex(_buffer, -1)

\* get(key, relative_index, default): default is None or Some(value); the
\* field's value is returned as Some(value).
\* (fault variant: default is returned for an index out of range too)
get_default_on_error(key, relative_index, default) ==
    LET r == __getitem__(IntIndex(relative_index))
    IN  IF r.raised = "no" /\ key \in DOMAIN r.value THEN Ok(Some(r.value[key])) ELSE Ok(default)
get(key, relative_index, default) ==
    LET r == __getitem__(IntIndex(relative_index))
    IN  IF r.raised # "no"
        THEN r
        ELSE IF key \in DOMAIN r.value THEN Ok(Some(r.value[key])) ELSE Ok(default)

\* __iter__(): the states the iterator yields, in order
\* (fault variant: the iterator runs from the newest state to the oldest)
iter_newest_first == [k \in 1..Len(_buffer) |-> _buffer[Len(_buffer) + 1 - k]]
__iter__ == _buffer

\* The calls that only read: each records its outcome and assigns nothing.
ReadOnly == UNCHANGED <<temporal_depth, overwrite_moves, _buffer, _id_index, updates, used, inserted, direct, streak>>

call_getitem(index) ==
    /\ ret' = [op |-> "__getitem__", arg |-> index, out |-> __getitem__(index)]
    /\ ReadOnly

call_recent(n) ==
    /\ ret' = [op |-> "recent", arg |-> n, out |-> recent(n)]
    /\ ReadOnly

\* (fault variant: current takes the newest state out of the buffer)
call_current_pop ==
    /\ ret' = [op |-> "current", out |-> current]
    /\ _buffer' = IF Len(_buffer) = 0 THEN _buffer ELSE SubSeq(_buffer, 1, Len(_buffer) - 1)
    /\ UNCHANGED <<temporal_depth, overwrite_moves, _id_index, updates, used, inserted, direct, streak>>
call_current ==
    /\ ret' = [op |-> "current", out |-> current]
    /\ ReadOnly

call_get(key, relative_index, default) ==
    /\ ret' = [op |-> "get", arg |-> <<key, relative_index, default>>, out |-> get(key, relative_index, default)]
    /\ ReadOnly

call_len ==
    /\ ret' = [op |-> "__len__", out |-> Ok(__len__)]
    /\ ReadOnly

call_contains(key) ==
    /\ ret' = [op |-> "__contains__", arg |-> key, out |-> Ok(__contains__(key))]
    /\ ReadOnly

call_iter ==
    /\ ret' = [op |-> "__iter__", out |-> Ok(__iter__)]
    /\ ReadOnly

\* ------------------------------------------------------------------ specifications
Init == __init__

OptIds == {None} \cup {Some(id) : id \in Ids}
IntIndices == {IntIndex(i) : i \in -MaxIndex..MaxIndex}
StrIndices == {StrIndex(id) : id \in Ids}
\* slices with bounds inside the buffer and beyond both of its ends
Beyond == MaxIndex + 1
Slices ==
    { Slice(None, None, None),
      Slice(Some(-Beyond), None, None),
      Slice(None, Some(Beyond), None),
      Slice(Some(Beyond), None, None),
      Slice(None, Some(-Beyond), None),
      Slice(Some(1), Some(-1), None),
      Slice(Some(-1), Some(1), None),
      Slice(Some(-2), Some(Beyond), None),
      Slice(None, None, Some(-1)),
      Slice(Some(Beyond), Some(-Beyond), Some(-1)),
      Slice(Some(-Beyond), Some(Beyond), Some(2)),
      Slice(None, None, Some(0)) }
Defaults == {None, Some(0)}

NextUpdate == \E s \in Snapshots, tid \in OptIds : update(s, tid)

\* update, where other calls are interleaved: at most MaxFewUpdates of them
few_updates(object_state, temporal_id) ==
    /\ Len(updates) < MaxFewUpdates
    /\ update(object_state, temporal_id)

NextFewUpdates == \E s \in Snapshots, tid \in OptIds : few_updates(s, tid)

\* update, at most MaxFrameUpdates of them
frame_updates(object_state, temporal_id) ==
    /\ Len(updates) < MaxFrameUpdates
    /\ update(object_state, temporal_id)

NextFrameUpdates == \E s \in Snapshots, tid \in OptIds : frame_updates(s, tid)

NextDirect ==
    \/ \E key \in Ids, value \in Snapshots : __setitem__(key, value)
    \/ \E key \in Ids : __delitem__(key)

\* indexing by recency, recent and current
NextRead ==
    \/ \E index \in IntIndices : call_getitem(index)
    \/ \E n \in 0..MaxIndex : call_recent(n)
    \/ call_current

\* indexing by slice, by identifier and by a value of another type
NextSlice ==
    \/ \E index \in Slices : call_getitem(index)
    \/ \E index \in StrIndices : call_getitem(index)
    \/ call_getitem(OtherIndex)

\* get, length, contains and iteration
NextGet ==
    \/ \E key \in Fields, i \in 0..MaxIndex, default \in Defaults : call_get(key, i, default)
    \/ call_len
    \/ \E key \in Ids : call_contains(key)
    \/ call_iter

\* every read, each with few arguments
FewIntIndices == {IntIndex(0), IntIndex(MaxIndex)}
FewSlices == {Slice(None, None, None), Slice(Some(1), Some(Beyond), None)}
FewStrIndices == {StrIndex("a")}
NextAnyRead ==
    \/ \E index \in FewIntIndices : call_getitem(index)
    \/ \E index \in FewSlices : call_getitem(index)
    \/ \E index \in FewStrIndices : call_getitem(index)
    \/ call_getitem(OtherIndex)
    \/ \E i \in {0, MaxIndex} : call_get("k", i, None)
    \/ call_current
    \/ call_recent(1)
    \/ call_len
    \/ call_contains("a")
    \/ call_iter

\* update calls only
SpecUpdate == Init /\ [][NextUpdate]_vars

\* update calls, direct __setitem__/__delitem__ calls and length()
Spec == Init /\ [][NextFewUpdates \/ NextDirect \/ call_len]_vars

\* a few update calls and direct __setitem__/__delitem__ calls
SpecDirect == Init /\ [][NextFrameUpdates \/ NextDirect]_vars

\* update calls and reads by recency
SpecRead == Init /\ [][NextFewUpdates \/ NextRead]_vars

\* update calls and reads by slice and by identifier
SpecSlice == Init /\ [][NextFewUpdates \/ NextSlice]_vars

\* update calls and get, length, contains, iteration
SpecGet == Init /\ [][NextFewUpdates \/ NextGet]_vars

\* update calls and every kind of read
SpecAnyRead == Init /\ [][NextFewUpdates \/ NextAnyRead]_vars

\* ------------------------------------------------------------------ history
N == Len(updates)
IdOf(k) == updates[k][1]
StateOf(k) == updates[k][2]
\* The update calls use pairwise distinct identifiers.
DistinctIds == \A i, j \in 1..N : i # j => IdOf(i) # IdOf(j)
\* Update call k is one of the Len(_buffer) most recent ones.
InWindow(k) == k > N - Len(_buffer)
\* The states of the m most recent update calls, oldest first.
RecentStates(m) == [j \in 1..Min(m, N) |-> StateOf(N - Min(m, N) + j)]
Contained == {id \in Ids : __contains__(id)}
Depth == temporal_depth[1]

\* ------------------------------------------------------------------ claims

\* C1: with a capacity C, length() never exceeds C, and once more than C
\* updates have been made the buffer holds exactly the states of the C most
\* recent update calls, oldest first.
C1_BufferHoldsMostRecent ==
    temporal_depth # None =>
        /\ __len__ <= Depth
        /\ N > Depth => _buffer = RecentStates(Depth)
C1_Witness ==
    /\ temporal_depth = Some(2)
    /\ ret.op = "update"
    /\ N = 3
    /\ __len__ = 2
    /\ StateOf(1) # StateOf(3)

\* C2 (as claimed): after update calls only, for every capacity and every
\* choice of identifiers, the contained identifiers are exactly the
\* identifiers of the update calls whose states the buffer still holds.
C2_ConsistencyAnyCapacityAnyIds ==
    direct = 0 => Contained = {IdOf(k) : k \in {j \in 1..N : InWindow(j)}}
\* C2 (amended): the same, for a capacity other than 0 and update calls with
\* pairwise distinct identifiers.
C2_Consistency ==
    (direct = 0 /\ temporal_depth # Some(0) /\ DistinctIds) =>
        Contained = {IdOf(k) : k \in {j \in 1..N : InWindow(j)}}
C2_Witness ==
    /\ temporal_depth = Some(2)
    /\ ret.op = "update"
    /\ N = 3
    /\ DistinctIds
    /\ Contained = {IdOf(2), IdOf(3)}

\* C3 (as claimed): after update calls only, every update call whose state is
\* still in the retained window has its identifier contained, and indexing
\* by that identifier returns the state passed to that call.
C3_LookupReturnsPassedState ==
    direct = 0 =>
        \A k \in 1..N : InWindow(k) =>
            /\ __contains__(IdOf(k))
            /\ __getitem__(StrIndex(IdOf(k))) = Ok(Some(StateOf(k)))
\* C3 (amended): the same, for an identifier no other update call uses.
C3_LookupReturnsPassedStateUniqueId ==
    direct = 0 =>
        \A k \in 1..N : (InWindow(k) /\ \A j \in 1..N : j # k => IdOf(j) # IdOf(k)) =>
            /\ __contains__(IdOf(k))
            /\ __getitem__(StrIndex(IdOf(k))) = Ok(Some(StateOf(k)))
C3_Witness ==
    /\ temporal_depth = Some(2)
    /\ ret.op = "update"
    /\ N = 4
    /\ IdOf(1) = IdOf(2)
    /\ IdOf(3) \notin {IdOf(1), IdOf(4)}
    /\ StateOf(3) # StateOf(4)
    /\ __getitem__(StrIndex(IdOf(3))) = Ok(Some(StateOf(3)))

\* C4: with capacity C >= 1 and n update calls with pairwise distinct
\* identifiers, the identifier of call k is contained exactly when k > n - C,
\* and recent(n) returns the states of the calls k > n - C, oldest first.
C4_EvictionOrdering ==
    (direct = 0 /\ temporal_depth # None /\ temporal_depth # Some(0) /\ DistinctIds) =>
        /\ \A k \in 1..N : __contains__(IdOf(k)) <=> k > N - Depth
        /\ recent(N) = Ok([j \in 1..Min(N, Depth) |-> StateOf(N - Min(N, Depth) + j)])
C4_Witness ==
    /\ temporal_depth = Some(2)
    /\ ret.op = "update"
    /\ N = 3
    /\ DistinctIds
    /\ ~__contains__(IdOf(1))
    /\ StateOf(2) # StateOf(3)
    /\ recent(3) = Ok(<<StateOf(2), StateOf(3)>>)

\* C5 (as claimed): for every capacity C >= 0, under update, set and delete
\* calls, the number of contained identifiers never exceeds C.
C5_IndexAtMostCapacityFromZero ==
    temporal_depth # None => Cardinality(Contained) <= Depth
\* C5 (amended): the same, for every capacity C >= 1.
C5_IndexAtMostCapacity ==
    (temporal_depth # None /\ Depth >= 1) => Cardinality(Contained) <= Depth
C5_Witness ==
    /\ temporal_depth = Some(2)
    /\ ret.op = "__setitem__"
    /\ N = 2
    /\ ret.arg[1] \notin {IdOf(1), IdOf(2)}
    /\ Contained = {IdOf(2), ret.arg[1]}

\* C6: indexing by an integer i with 0 <= i < length() returns the state of
\* the (i+1)-th most recent update call; indexing by an integer whose absolute
\* value is >= length() raises IndexError.
C6_RecencyIndexing ==
    (ret.op = "__getitem__" /\ ret.arg.type = "int") =>
        /\ (0 <= ret.arg.v /\ ret.arg.v < __len__) => ret.out = Ok(StateOf(N - ret.arg.v))
        /\ Abs(ret.arg.v) >= __len__ => ret.out = Raise("IndexError")
C6_Witness ==
    /\ temporal_depth = Some(2)
    /\ N = 3
    /\ ret.op = "__getitem__"
    /\ ret.arg = IntIndex(1)
    /\ StateOf(2) # StateOf(3)
    /\ ret.out = Ok(StateOf(2))

\* C7: indexing by -i has the same outcome as indexing by i: the state at
\* recency position i when i is in range, IndexError when it is not.
C7_NegativeIndexIsAbsolute ==
    \A i \in 1..MaxIndex :
        /\ __getitem__(IntIndex(-i)) = __getitem__(IntIndex(i))
        /\ (ret.op = "__getitem__" /\ ret.arg = IntIndex(-i)) =>
            ret.out = IF i < __len__ THEN Ok(StateOf(N - i)) ELSE Raise("IndexError")
C7_Witness ==
    /\ temporal_depth = None
    /\ N = 3
    /\ ret.op = "__getitem__"
    /\ ret.arg = IntIndex(-1)
    /\ StateOf(1) # StateOf(2)
    /\ ret.out = Ok(StateOf(2))

\* C8 (as claimed): for every n >= 0, recent(n) returns the states of the
\* min(n, length()) most recent update calls, oldest first, and never raises.
C8_RecentReturnsMinOfNAndLength ==
    ret.op = "recent" => ret.out = Ok(RecentStates(Min(ret.arg, __len__)))

\* C9: current returns the state passed to the most recent update call, the
\* same as integer index 0, when the buffer is not empty, and raises
\* IndexError when it is empty.
C9_Current ==
    ret.op = "current" =>
        IF __len__ > 0
        THEN ret.out = Ok(StateOf(N)) /\ ret.out = __getitem__(IntIndex(0))
        ELSE ret.out = Raise("IndexError")
C9_Witness ==
    /\ ret.op = "current"
    /\ temporal_depth = Some(1)
    /\ N = 2
    /\ StateOf(1) # StateOf(2)
    /\ ret.out = Ok(StateOf(2))

\* C10: with capacity None, after N update calls with pairwise distinct
\* identifiers, length() is N, every identifier is contained, and the oldest
\* state is at recency index N - 1.
C10_Unbounded ==
    (direct = 0 /\ temporal_depth = None /\ DistinctIds) =>
        /\ __len__ = N
        /\ \A k \in 1..N : __contains__(IdOf(k))
        /\ N >= 1 => __getitem__(IntIndex(N - 1)) = Ok(StateOf(1))
C10_Witness ==
    /\ temporal_depth = None
    /\ ret.op = "update"
    /\ N = 3
    /\ DistinctIds
    /\ StateOf(1) # StateOf(2)
    /\ __len__ = 3

\* C11: in every state, for every capacity and every identifier x,
\* update(state, x) returns x, and right after it x is contained and indexing
\* by x returns the state that was passed.
C11_IdentifierRoundTrip ==
    (ret.op = "update" /\ ret.arg # None) =>
        /\ ret.out = Ok(ret.arg[1])
        /\ __contains__(ret.arg[1])
        /\ __getitem__(StrIndex(ret.arg[1])) = Ok(Some(StateOf(N)))
\* the identifier was stored before with another state, in a full index, after
\* a direct call
C11_Witness ==
    /\ ret.op = "update"
    /\ ret.arg # None
    /\ temporal_depth = Some(1)
    /\ direct = 1
    /\ N = 2
    /\ IdOf(1) = IdOf(2)
    /\ StateOf(1) # StateOf(2)
    /\ __getitem__(StrIndex(IdOf(2))) = Ok(Some(StateOf(2)))

\* C12: no read changes the state, whether it returns or raises: across every
\* integer, slice and identifier indexing, get, current, recent, length,
\* contains and iteration call, the buffer and the identifier index stay as
\* they were.
ReadOps == {"__getitem__", "get", "current", "recent", "__len__", "__contains__", "__iter__"}
C12_ReadsMutateNothing ==
    [][ret'.op \in ReadOps => (_buffer' = _buffer /\ _id_index' = _id_index)]_vars
\* a read that raised, on a buffer and an index that still hold two entries
C12_Witness ==
    /\ ret.op = "get"
    /\ ret.out = Raise("IndexError")
    /\ N = 2
    /\ _buffer = RecentStates(2)
    /\ Cardinality(Contained) = 2

\* C13: __setitem__ and __delitem__ change only the identifier index: across
\* either call the buffer is unchanged, and with it length(), the iteration
\* order, every slice and every integer-index result; after a delete the
\* identifier is not contained, while the states stored under it by update
\* calls still in the buffer are still returned by their recency index.
DirectOps == {"__setitem__", "__delitem__"}
C13_DirectCallsKeepBuffer ==
    [][ret'.op \in DirectOps =>
        /\ _buffer' = _buffer
        /\ __len__' = __len__
        /\ __iter__' = __iter__
        /\ \A sl \in Slices : ListOfSlice(_buffer', sl) = getitem_slice(sl)
        /\ \A i \in -MaxIndex..MaxIndex : getitem_int(i)' = getitem_int(i)
        /\ ret'.op = "__delitem__" =>
            \A key \in Ids : key = ret'.arg =>
                /\ ~__contains__(key)'
                /\ \A k \in 1..N : (InWindow(k) /\ IdOf(k) = key) =>
                                        getitem_int(N - k)' = Ok(StateOf(k))
      ]_vars
\* the identifier of a state in the buffer was deleted
C13_Witness ==
    /\ ret.op = "__delitem__"
    /\ ret.out = Ok(None)
    /\ N = 2
    /\ __len__ = 2
    /\ IdOf(1) = ret.arg
    /\ IdOf(2) # ret.arg
    /\ StateOf(1) # StateOf(2)
    /\ ~__contains__(ret.arg)
    /\ __getitem__(IntIndex(1)) = Ok(StateOf(1))

\* C14: slicing and identifier lookup never raise IndexError: a slice with
\* any start and stop selects, from the states in the buffer oldest first,
\* those at the positions between the bounds counted from the nearer end of the
\* buffer when they lie beyond it (none, when the bounds select nothing), and
\* indexing by an identifier that is not in the identifier index returns None.
\* The positions 0..length-1 (0 the oldest) a slice selects, by the bounds it
\* was given: a negative bound counts from the newest end.
SelectedPositions(sl, length) ==
    LET step    == IF sl.step = None THEN 1 ELSE sl.step[1]
        Norm(v) == IF v < 0 THEN v + length ELSE v
    IN  IF step > 0
        THEN LET from == IF sl.start = None \/ Norm(sl.start[1]) < 0 THEN 0 ELSE Norm(sl.start[1])
                 to   == IF sl.stop = None THEN length ELSE Norm(sl.stop[1])
             IN  {p \in 0..(length - 1) : from <= p /\ p < to /\ (p - from) % step = 0}
        ELSE LET from == IF sl.start = None \/ Norm(sl.start[1]) > length - 1 THEN length - 1 ELSE Norm(sl.start[1])
                 to   == IF sl.stop = None THEN -1 ELSE Norm(sl.stop[1])
             IN  {p \in 0..(length - 1) : to < p /\ p <= from /\ (from - p) % (-step) = 0}
\* the states of the update calls still in the buffer at those positions, in
\* the direction of the step
SelectedStates(sl) ==
    LET P       == SelectedPositions(sl, __len__)
        up      == sl.step = None \/ sl.step[1] > 0
        Nth(k)  == CHOOSE p \in P : Cardinality({q \in P : IF up THEN q < p ELSE q > p}) = k - 1
    IN  [k \in 1..Cardinality(P) |-> StateOf(N - __len__ + Nth(k) + 1)]
C14_SliceAndIdNeverIndexError ==
    ret.op = "__getitem__" =>
        /\ ret.arg.type \in {"slice", "str"} => ret.out.raised # "IndexError"
        /\ (ret.arg.type = "slice" /\ ret.arg.step # Some(0)) => ret.out = Ok(SelectedStates(ret.arg))
        /\ (ret.arg.type = "str" /\ ~__contains__(ret.arg.v)) => ret.out = Ok(None)
\* a start beyond the oldest end of a buffer of two states: both are returned
C14_Witness ==
    /\ ret.op = "__getitem__"
    /\ ret.arg = Slice(Some(-Beyond), None, None)
    /\ temporal_depth = Some(2)
    /\ N = 3
    /\ StateOf(2) # StateOf(3)
    /\ ret.out = Ok(<<StateOf(2), StateOf(3)>>)

\* C15: get(key, relative_index, default) returns the value of key in the
\* state at recency index relative_index when that state has the key, returns
\* default when the state is there but has no such key, and raises IndexError
\* (default is not returned) when relative_index is not below length().
C15_Get ==
    ret.op = "get" =>
        LET key     == ret.arg[1]
            i       == ret.arg[2]
            default == ret.arg[3]
        IN  IF i >= __len__
            THEN ret.out = Raise("IndexError")
            ELSE IF key \in DOMAIN StateOf(N - i)
                 THEN ret.out = Ok(Some(StateOf(N - i)[key]))
                 ELSE ret.out = Ok(default)
\* the state before the newest lacks the key, the newest has it: the default
\* comes back
C15_Witness ==
    /\ ret.op = "get"
    /\ ret.arg = <<"k", 1, Some(0)>>
    /\ N = 2
    /\ __len__ = 2
    /\ "k" \notin DOMAIN StateOf(1)
    /\ "k" \in DOMAIN StateOf(2)
    /\ ret.out = Ok(Some(0))

\* C16: the identifier index under update and __setitem__, with a capacity
\* C >= 1: writing a key that is not there while the index holds C keys evicts
\* exactly one key, the oldest-inserted of the keys it holds, and the others
\* keep their states; writing a key that is there sets its state and evicts
\* nothing: the keys are the same.  The oldest-inserted key is the first of
\* the keys in the order they came in; where the dict renews a key's place
\* when it is written again, it is the first in that renewed order.
OldestInserted == IF overwrite_moves THEN _id_index[1][1] ELSE inserted[1]
WrittenKey(r) == IF r.op = "update" THEN r.out.value ELSE r.arg[1]
C17_IterationOldestFirst ==
    ret.op = "__iter__" =>
        /\ ret.out = Ok(RecentStates(__len__))
        /\ ret.out = __getitem__(Slice(None, None, None))
        /\ \A p \in 0..(__len__ - 1) : Ok(ret.out.value[p + 1]) = __getitem__(IntIndex(__len__ - 1 - p))
\* three update calls into a buffer of two: the second state, then the third
C17_Witness ==
    /\ ret.op = "__iter__"
    /\ temporal_depth = Some(2)
    /\ N = 3
    /\ StateOf(2) # StateOf(3)
    /\ ret.out = Ok(<<StateOf(2), StateOf(3)>>)

\* C18: length() never decreases: across every call the buffer is at least as
\* long as before; update makes it one longer while it is below the capacity
\* and leaves its length alone at the capacity; a state leaves the buffer only
\* in an update call, from the oldest end, as the new state goes in.
C18_LengthNeverDecreases ==
    [][ /\ __len__' >= __len__
        /\ ret'.op = "update" =>
            __len__' = IF temporal_depth # None /\ __len__ >= Depth THEN __len__ ELSE __len__ + 1
        /\ ret'.op # "update" => _buffer' = _buffer
        /\ \/ _buffer' = _buffer
           \/ \E s \in Snapshots : _buffer' = Append(_buffer, s)
           \/ /\ ret'.op = "update"
              /\ __len__ > 0
              /\ \E s \in Snapshots : _buffer' = Append(Tail(_buffer), s)
      ]_vars
\* a second update call into a buffer of one state, after a direct call
C18_Witness ==
    /\ ret.op = "update"
    /\ temporal_depth = Some(1)
    /\ direct = 1
    /\ N = 2
    /\ StateOf(1) # StateOf(2)
    /\ __len__ = 1
    /\ _buffer = <<StateOf(2)>>

\* C19: with a capacity C >= 1, whatever update, __setitem__ and __delitem__
\* calls came before, after C consecutive update calls that each store under
\* an identifier not stored before, the identifiers in the identifier index
\* are exactly those of these C update calls, each with the state passed, and
\* the buffer holds exactly their states.
C19_Resynchronised ==
    (Bounded(temporal_depth) /\ streak >= Depth) =>
        /\ Contained = {IdOf(k) : k \in (N - Depth + 1)..N}
        /\ \A k \in (N - Depth + 1)..N : __getitem__(StrIndex(IdOf(k))) = Ok(Some(StateOf(k)))
        /\ _buffer = RecentStates(Depth)
\* the identifier of the first state was deleted, then two update calls with
\* new identifiers filled a buffer of two
C19_Witness ==
    /\ temporal_depth = Some(2)
    /\ direct = 1
    /\ N = 3
    /\ streak = 2
    /\ ret.op = "update"
    /\ Contained = {IdOf(2), IdOf(3)}
    /\ _buffer = <<StateOf(2), StateOf(3)>>

====
